---- MODULE Spec2Model ----
(***************************************************************************)
(* Model of the four programs of the repository.                           *)
(*                                                                         *)
(*   src/4_sudoku.py      solve_puzzle, the recursive constraint           *)
(*                        propagation solver (naked singles, then hidden   *)
(*                        singles in rows, columns and 3x3 regions).  One  *)
(*                        step is one call of solve_puzzle: it returns,    *)
(*                        raises, or places one digit and recurses.        *)
(*                        Specification Spec.                              *)
(*   src/2_caesar.py      cipher_caesar and its versions 2 and 3.          *)
(*                        Specification SpecCaesar.                        *)
(*   src/3_logparse.py    compute_uptime, one step per log entry.          *)
(*                        Specification SpecUptime.                        *)
(*   src/1_integer_sum.py add_it_up, one step per term of the sum.         *)
(*                        Specification SpecSum.                           *)
(*                                                                         *)
(* Each specification runs one program; the variables of the other         *)
(* programs stay at their idle values.                                     *)
(***************************************************************************)
EXTENDS Integers, Sequences, FiniteSets, TLC

VARIABLES
    \* src/4_sudoku.py
    start,    \* the grid handed to solve_puzzle by the caller
    puzzle,   \* sudoku_puzzle, mutated in place by every placement
    pc,       \* "call": a call of solve_puzzle is about to run; else how the run ended
    rounds,   \* placements made so far in this run (= recursive calls made)
    last,     \* which scan made the latest placement of this run ("" before any)
    run,      \* which run on this starting grid (1 or 2)
    first,    \* outcome of the first run, once it has ended
    \* src/2_caesar.py
    text,     \* the text handed to the three versions
    shift,    \* n, the number of positions to shift the letters
    stage,    \* "input", then "encrypted", then "decrypted"
    encrypted,\* what each version gave for (text, shift)
    decrypted,\* what each version gave for (its encrypted text, 26 - shift)
    \* src/3_logparse.py
    filtered_log,    \* the list of (timestamp, status)
    position,        \* how many entries the for loop has consumed
    uptime_seconds,
    on_timestamp,
    uptime_pc,       \* "loop", then "returned"
    \* src/1_integer_sum.py
    integer,  \* the argument of add_it_up
    term,     \* the next element of range(integer + 1) that sum() adds
    total,    \* the running value of sum()
    sum_pc    \* "call", "sum", then "returned"

sudoku_vars == <<start, puzzle, pc, rounds, last, run, first>>
caesar_vars == <<text, shift, stage, encrypted, decrypted>>
uptime_vars == <<filtered_log, position, uptime_seconds, on_timestamp, uptime_pc>>
sum_vars == <<integer, term, total, sum_pc>>

vars == <<sudoku_vars, caesar_vars, uptime_vars, sum_vars>>

\* the idle values of the programs that a specification does not run
SudokuIdle ==
    /\ start = <<>>
    /\ puzzle = <<>>
    /\ pc = "idle"
    /\ rounds = 0
    /\ last = ""
    /\ run = 0
    /\ first = <<>>
CaesarIdle ==
    /\ text = <<>>
    /\ shift = 0
    /\ stage = "idle"
    /\ encrypted = <<>>
    /\ decrypted = <<>>
UptimeIdle ==
    /\ filtered_log = <<>>
    /\ position = 0
    /\ uptime_seconds = 0
    /\ on_timestamp = 0
    /\ uptime_pc = "idle"
SumIdle ==
    /\ integer = <<>>
    /\ term = 0
    /\ total = 0
    /\ sum_pc = "idle"

----------------------------------------------------------------------------
(* Bounds of the model *)

\* how many holes of a seed puzzle (its first ones, row-major) may be filled
\* back with the solution digit
MaxRefill == 3
\* how many cells (row-major, from the top left) may be overwritten by the caller
MaxOverwrite == 3

----------------------------------------------------------------------------
(* The grid *)

Idx == 0 .. 8
Digits == 1 .. 9
Cells == Idx \X Idx

\* for row_n in range(9): for col_n in range(9): the k-th cell visited
RowMajor(k) == <<k \div 9, k % 9>>

\* sdm_to_array: the 81 digits of an sdm line, cut in 9 rows of 9
sdm_to_array(sdm_string) ==
    [x \in Cells |-> sdm_string[x[1] * 9 + x[2] + 1]]

\* the puzzle of the module docstring
ExampleSdm ==
    <<0, 0, 4, 0, 0, 6, 0, 7, 9,
      0, 0, 0, 0, 0, 0, 6, 0, 2,
      0, 5, 6, 0, 9, 2, 3, 0, 0,
      0, 7, 8, 0, 6, 1, 0, 3, 0,
      5, 0, 9, 0, 0, 0, 4, 0, 6,
      0, 2, 0, 5, 4, 0, 8, 9, 0,
      0, 0, 7, 4, 1, 0, 9, 2, 0,
      1, 0, 5, 0, 0, 0, 0, 0, 0,
      8, 4, 0, 6, 0, 0, 1, 0, 0>>

\* its completed grid, from which the other starting grids are cut
SolutionSdm ==
    <<2, 8, 4, 1, 3, 6, 5, 7, 9,
      9, 1, 3, 7, 5, 4, 6, 8, 2,
      7, 5, 6, 8, 9, 2, 3, 4, 1,
      4, 7, 8, 9, 6, 1, 2, 3, 5,
      5, 3, 9, 2, 8, 7, 4, 1, 6,
      6, 2, 1, 5, 4, 3, 8, 9, 7,
      3, 6, 7, 4, 1, 5, 9, 2, 8,
      1, 9, 5, 3, 2, 8, 7, 6, 4,
      8, 4, 2, 6, 7, 9, 1, 5, 3>>

EmptySdm == [i \in 1 .. 81 |-> 0]

\* hole sets: a row with two hidden singles, a column hidden single, a region
\* hidden single, and four cells that can be completed in two ways
SeedRow ==
    {<<3, 0>>, <<3, 1>>, <<3, 2>>, <<5, 0>>, <<5, 2>>, <<5, 6>>, <<5, 8>>,
     <<6, 2>>, <<6, 6>>, <<6, 8>>, <<7, 1>>, <<7, 4>>, <<7, 6>>, <<8, 0>>,
     <<8, 1>>, <<8, 2>>, <<8, 4>>}
SeedCol ==
    {<<0, 1>>, <<0, 3>>, <<0, 6>>, <<1, 1>>, <<1, 2>>, <<1, 7>>, <<2, 1>>,
     <<2, 3>>, <<2, 8>>, <<3, 2>>, <<3, 4>>, <<3, 7>>, <<3, 8>>, <<4, 1>>,
     <<4, 4>>, <<4, 7>>, <<4, 8>>, <<8, 6>>, <<8, 7>>}
SeedRegion ==
    {<<3, 1>>, <<3, 5>>, <<3, 6>>, <<4, 5>>, <<4, 7>>, <<4, 8>>, <<5, 0>>,
     <<5, 1>>, <<5, 2>>, <<5, 8>>, <<6, 1>>, <<6, 5>>, <<6, 6>>, <<6, 7>>,
     <<7, 0>>, <<7, 7>>, <<8, 2>>, <<8, 5>>, <<8, 6>>, <<8, 7>>}
SeedTwin == {<<1, 7>>, <<1, 8>>, <<6, 7>>, <<6, 8>>}
\* one hole far from the cells the caller overwrites, one hole next to them,
\* and no hole at all
SeedLast == {<<8, 8>>}
SeedNear == {<<0, 1>>}
SeedFull == {}
Seeds == {SeedRow, SeedCol, SeedRegion, SeedTwin, SeedLast, SeedNear, SeedFull}

\* the solution with the cells of H made unknown
Punch(H) ==
    [x \in Cells |-> IF x \in H THEN 0 ELSE sdm_to_array(SolutionSdm)[x]]

\* g with the rows a and b exchanged
ExchangeRows(g, a, b) ==
    [x \in Cells |-> g[<<IF x[1] = a THEN b ELSE IF x[1] = b THEN a ELSE x[1], x[2]>>]]

\* the first n cells of S in row-major order
FirstOf(S, n) ==
    {x \in S : Cardinality({y \in S : 9 * y[1] + y[2] < 9 * x[1] + x[2]}) < n}

\* the grids cut from the seed S: some of its first holes filled back, or one
\* of the first cells of the grid overwritten with any digit
Cut(S) ==
    {Punch(S \ D) : D \in SUBSET FirstOf(S, MaxRefill)}
    \cup {[Punch(S) EXCEPT ![RowMajor(k)] = v] :
            <<k, v>> \in (0 .. MaxOverwrite - 1) \X Digits}

\* the grids the caller may hand to solve_puzzle
StartGrids ==
    {sdm_to_array(ExampleSdm), sdm_to_array(EmptySdm), sdm_to_array(SolutionSdm)}
    \cup UNION {Cut(S) : S \in Seeds}
    \cup {ExchangeRows(g, 3, 4) : g \in Cut(SeedRegion)}

----------------------------------------------------------------------------
(* solve_puzzle *)

\* the 3x3 region where the cell is located, as the cells of the two slices
RegionOf(row_n, col_n) ==
    (((row_n \div 3) * 3) .. (((row_n \div 3) + 1) * 3 - 1))
        \X (((col_n \div 3) * 3) .. (((col_n \div 3) + 1) * 3 - 1))

\* ValidDigitsOf without the test of the region
ValidDigitsNoRegion(p, row_n, col_n) ==
    LET inRow == {p[row_n, c] : c \in Idx}
        inCol == {p[r, col_n] : r \in Idx}
    IN  SelectSeq([i \in 1 .. 9 |-> i],
                  LAMBDA n : ~(n \in inRow \/ n \in inCol))

\* ValidDigitsOf without the test of the column
ValidDigitsNoColumn(p, row_n, col_n) ==
    LET inRow == {p[row_n, c] : c \in Idx}
        inReg == {p[x] : x \in RegionOf(row_n, col_n)}
    IN  SelectSeq([i \in 1 .. 9 |-> i],
                  LAMBDA n : ~(n \in inRow \/ n \in inReg))

\* the digits that fit in a void cell: not in its row, column or region
ValidDigitsOf(p, row_n, col_n) ==
    LET inRow == {p[row_n, c] : c \in Idx}
        inCol == {p[r, col_n] : r \in Idx}
        inReg == {p[x] : x \in RegionOf(row_n, col_n)}
    IN  SelectSeq([i \in 1 .. 9 |-> i],
                  LAMBDA n : ~(n \in inRow \/ n \in inCol \/ n \in inReg))

\* valid_digits after the loop over the cells: [] for the non-void cells
valid_digits(p) ==
    [x \in Cells |-> IF p[x] # 0 THEN <<>> ELSE ValidDigitsOf(p, x[1], x[2])]

\* NakedScan without the skip of the non-void cells
RECURSIVE NakedScanNoSkip(_, _)
NakedScanNoSkip(p, k) ==
    IF k = 81 THEN 81
    ELSE IF Len(ValidDigitsOf(p, RowMajor(k)[1], RowMajor(k)[2])) = 1
         THEN k
         ELSE NakedScanNoSkip(p, k + 1)

\* NakedScan with the two loops exchanged: columns outside, rows inside
RECURSIVE NakedScanByColumns(_, _)
NakedScanByColumns(p, k) ==
    IF k = 81 THEN 81
    ELSE IF p[<<k % 9, k \div 9>>] = 0
            /\ Len(ValidDigitsOf(p, k % 9, k \div 9)) = 1
         THEN 9 * (k % 9) + (k \div 9)
         ELSE NakedScanByColumns(p, k + 1)

\* NakedScan with range(8) for the rows: the last row is not visited
RECURSIVE NakedScanShort(_, _)
NakedScanShort(p, k) ==
    IF k >= 72 THEN 81
    ELSE IF p[RowMajor(k)] = 0
            /\ Len(ValidDigitsOf(p, RowMajor(k)[1], RowMajor(k)[2])) = 1
         THEN k
         ELSE NakedScanShort(p, k + 1)

\* does the loop over the cells stop at the cell visited j-th (from 0)
SingleAt(p, j) ==
    /\ p[RowMajor(j)] = 0
    /\ Len(ValidDigitsOf(p, RowMajor(j)[1], RowMajor(j)[2])) = 1

\* the loop over the cells from cell k on: the first void cell with a single
\* valid digit, or 81 when the loop ends without one
NakedScan(p, k) ==
    IF \E j \in k .. 80 : SingleAt(p, j)
    THEN CHOOSE j \in k .. 80 : SingleAt(p, j) /\ \A i \in k .. j - 1 : ~SingleAt(p, i)
    ELSE 81

\* HasVoid with the test "has the puzzle already been solved?" left out
HasVoidAlways(p) == p = p

\* 0 in sudoku_puzzle
HasVoid(p) == 0 \in {p[x] : x \in Cells}

ReturnSolved ==
    /\ pc = "call"
    /\ ~HasVoid(puzzle)
    /\ pc' = "grid"
    /\ UNCHANGED <<start, puzzle, rounds, last, run, first>>
    /\ UNCHANGED <<caesar_vars, uptime_vars, sum_vars>>

NakedSingle ==
    /\ pc = "call"
    /\ HasVoid(puzzle)
    /\ LET k == NakedScan(puzzle, 0)
       IN  /\ k < 81
           /\ puzzle' = [puzzle EXCEPT ![RowMajor(k)] =
                  ValidDigitsOf(puzzle, RowMajor(k)[1], RowMajor(k)[2])[1]]
    /\ rounds' = rounds + 1
    /\ last' = "cell"
    /\ UNCHANGED <<start, pc, run, first>>
    /\ UNCHANGED <<caesar_vars, uptime_vars, sum_vars>>

\* np.array(valid_digits, dtype='object'): 81 lists of one common length make
\* a 3-dimensional array of digits, lists of different lengths a 9x9 array of
\* lists
ArrayNdim(vd) ==
    IF \A x \in Cells : Len(vd[x]) = Len(vd[<<0, 0>>]) THEN 3 ELSE 2

\* ChainRaises also for the 9x9x0 array of 81 empty lists
ChainRaisesOnEmpty(vd) == ArrayNdim(vd) = 3

\* itertools.chain.from_iterable over the flattened slice of a 3-dimensional
\* array meets a digit where it expects a list
ChainRaises(vd) == ArrayNdim(vd) = 3 /\ Len(vd[<<0, 0>>]) > 0

\* the nine units of each kind as the cells of the flattened slice, in order
RowCells(row_n) == [i \in 1 .. 9 |-> <<row_n, i - 1>>]
ColCells(col_n) == [i \in 1 .. 9 |-> <<i - 1, col_n>>]
\* regions[k] for k in 0..8: rows (k // 3) * 3 .. + 2 and columns
\* (k % 3) * 3 .. + 2, flattened row by row
RegionCells(k) ==
    [i \in 1 .. 9 |-> <<(k \div 3) * 3 + ((i - 1) \div 3),
                        (k % 3) * 3 + ((i - 1) % 3)>>]

\* the conversion of the position idx in the flattened region to row and column
RegionTarget(k, idx) ==
    <<(idx \div 3) + (k \div 3) * 3, (idx % 3) + (k % 3) * 3>>

\* set(itertools.chain.from_iterable(lists of the unit))
digits_to_check(vd, unit) ==
    UNION {{vd[unit[i]][j] : j \in 1 .. Len(vd[unit[i]])} : i \in 1 .. 9}

\* digit_presence as the positions (from 0) that hold True
digit_presence(vd, unit, digit) ==
    {i \in 0 .. 8 : \E j \in 1 .. Len(vd[unit[i + 1]]) : vd[unit[i + 1]][j] = digit}

\* digit_presence.index(True)
IndexTrue(presence) == CHOOSE i \in presence : \A j \in presence : i <= j

\* SingleDigits with sum(digit_presence) >= 1
SingleDigitsAtLeastOne(vd, unit) ==
    {digit \in digits_to_check(vd, unit) :
        Cardinality(digit_presence(vd, unit, digit)) >= 1}

\* the digits of the unit for which sum(digit_presence) == 1
SingleDigits(vd, unit) ==
    {digit \in digits_to_check(vd, unit) :
        Cardinality(digit_presence(vd, unit, digit)) = 1}

\* the loop over the digits of one unit.  digits_to_check is a set, so the
\* order of the visit is not fixed by the language: whichever digit with
\* sum(digit_presence) == 1 is visited first is written at its only position
PlaceIn(vd, unit, target) ==
    \E digit \in SingleDigits(vd, unit) :
        puzzle' = [puzzle EXCEPT
                      ![target[IndexTrue(digit_presence(vd, unit, digit))]] = digit]

\* the part of a call after the loop over the cells found no single digit
AfterCells(vd) ==
    /\ pc = "call"
    /\ HasVoid(puzzle)
    /\ NakedScan(puzzle, 0) = 81

HiddenRow ==
    LET vd == valid_digits(puzzle)
    IN  /\ AfterCells(vd)
        /\ ~ChainRaises(vd)
        /\ \E row_n \in Idx :
              /\ \A r \in 0 .. row_n - 1 : SingleDigits(vd, RowCells(r)) = {}
              /\ PlaceIn(vd, RowCells(row_n), [idx \in Idx |-> <<row_n, idx>>])
        /\ rounds' = rounds + 1
        /\ last' = "row"
        /\ UNCHANGED <<start, pc, run, first>>
        /\ UNCHANGED <<caesar_vars, uptime_vars, sum_vars>>

HiddenCol ==
    LET vd == valid_digits(puzzle)
    IN  /\ AfterCells(vd)
        /\ ~ChainRaises(vd)
        /\ \A r \in Idx : SingleDigits(vd, RowCells(r)) = {}
        /\ \E col_n \in Idx :
              /\ \A c \in 0 .. col_n - 1 : SingleDigits(vd, ColCells(c)) = {}
              /\ PlaceIn(vd, ColCells(col_n), [idx \in Idx |-> <<idx, col_n>>])
        /\ rounds' = rounds + 1
        /\ last' = "col"
        /\ UNCHANGED <<start, pc, run, first>>
        /\ UNCHANGED <<caesar_vars, uptime_vars, sum_vars>>

HiddenRegion ==
    LET vd == valid_digits(puzzle)
    IN  /\ AfterCells(vd)
        /\ ~ChainRaises(vd)
        /\ \A r \in Idx : SingleDigits(vd, RowCells(r)) = {}
        /\ \A c \in Idx : SingleDigits(vd, ColCells(c)) = {}
        /\ \E k \in Idx :
              /\ \A j \in 0 .. k - 1 : SingleDigits(vd, RegionCells(j)) = {}
              /\ PlaceIn(vd, RegionCells(k), [idx \in Idx |-> RegionTarget(k, idx)])
        /\ rounds' = rounds + 1
        /\ last' = "region"
        /\ UNCHANGED <<start, pc, run, first>>
        /\ UNCHANGED <<caesar_vars, uptime_vars, sum_vars>>

\* the all-void grid: every cell has the nine digits, the array is 9x9x9 and
\* the first set(...) of the row scan raises TypeError
RaiseTypeError ==
    LET vd == valid_digits(puzzle)
    IN  /\ AfterCells(vd)
        /\ ChainRaises(vd)
        /\ pc' = "TypeError"
        /\ UNCHANGED <<start, puzzle, rounds, last, run, first>>
        /\ UNCHANGED <<caesar_vars, uptime_vars, sum_vars>>

ReturnNone ==
    LET vd == valid_digits(puzzle)
    IN  /\ AfterCells(vd)
        /\ ~ChainRaises(vd)
        /\ \A r \in Idx : SingleDigits(vd, RowCells(r)) = {}
        /\ \A c \in Idx : SingleDigits(vd, ColCells(c)) = {}
        /\ \A k \in Idx : SingleDigits(vd, RegionCells(k)) = {}
        /\ pc' = "None"
        /\ UNCHANGED <<start, puzzle, rounds, last, run, first>>
        /\ UNCHANGED <<caesar_vars, uptime_vars, sum_vars>>

\* what the caller gets from the run that has ended
Outcome == IF pc = "grid" THEN <<"grid", puzzle>> ELSE <<pc>>

\* the caller solves an equal starting grid a second time
Rerun ==
    /\ pc # "call"
    /\ run = 1
    /\ first' = Outcome
    /\ puzzle' = start
    /\ pc' = "call"
    /\ rounds' = 0
    /\ last' = ""
    /\ run' = 2
    /\ UNCHANGED start
    /\ UNCHANGED <<caesar_vars, uptime_vars, sum_vars>>

Init ==
    /\ start \in StartGrids
    /\ puzzle = start
    /\ pc = "call"
    /\ rounds = 0
    /\ last = ""
    /\ run = 1
    /\ first = <<>>
    /\ CaesarIdle /\ UptimeIdle /\ SumIdle

Next ==
    \/ ReturnSolved
    \/ NakedSingle
    \/ HiddenRow
    \/ HiddenCol
    \/ HiddenRegion
    \/ RaiseTypeError
    \/ ReturnNone
    \/ Rerun

Spec == Init /\ [][Next]_vars

\* a call of solve_puzzle that has started runs to its return
FairSpec == Spec /\ WF_vars(Next)

----------------------------------------------------------------------------
(* src/2_caesar.py: cipher_caesar, cipher_caesar_v2, cipher_caesar_v3 *)

\* the longest text made of the sample characters
MaxText == 2
\* how far the shifts go below 0 and above the number of letters
ShiftMargin == 27

\* string.ascii_lowercase, one character per element
ascii_lowercase ==
    <<"a", "b", "c", "d", "e", "f", "g", "h", "i", "j", "k", "l", "m",
      "n", "o", "p", "q", "r", "s", "t", "u", "v", "w", "x", "y", "z">>

TOTAL_ASCII_LOWERCASE == Len(ascii_lowercase)

\* some of string.digits, string.punctuation and string.whitespace, and two
\* letters that are not lowercase
OtherCharacters == {"0", "7", "!", ".", " ", "\t", "A", "Z"}

Characters == {ascii_lowercase[i] : i \in 1 .. TOTAL_ASCII_LOWERCASE} \cup OtherCharacters

SampleCharacters == {"a", "m", "z", "Z", "7", "!", " "}

\* the texts: every single character, and every text of up to MaxText sample
\* characters
Texts ==
    {<<c>> : c \in Characters}
    \cup UNION {[1 .. len -> SampleCharacters] : len \in 0 .. MaxText}

Shifts == (0 - ShiftMargin) .. (TOTAL_ASCII_LOWERCASE + ShiftMargin)

\* what a call gives when it raises instead of returning a string
IndexError == <<"IndexError">>
ValueError == <<"ValueError">>

\* character in string.ascii_lowercase
InLowercase(character) ==
    \E i \in 1 .. TOTAL_ASCII_LOWERCASE : ascii_lowercase[i] = character

\* string.ascii_lowercase.index(character), counted from 0
IndexOf(character) ==
    CHOOSE i \in 0 .. TOTAL_ASCII_LOWERCASE - 1 : ascii_lowercase[i + 1] = character

\* sequence[i] of Python: i counts from 0, a negative i counts from the end,
\* any other i raises IndexError
Getitem(sequence, i) ==
    IF 0 <= i /\ i < Len(sequence) THEN <<sequence[i + 1]>>
    ELSE IF i < 0 /\ 0 - Len(sequence) <= i THEN <<sequence[Len(sequence) + i + 1]>>
    ELSE IndexError

\* ShiftedIndex without the subtraction of the number of letters
ShiftedIndexNoWrap(char_position, places) == char_position + places

\* char_position + n - TOTAL_ASCII_LOWERCASE
ShiftedIndex(char_position, places) ==
    char_position + places - TOTAL_ASCII_LOWERCASE

\* the character written for one character of the text: <<character>>, or
\* IndexError
EncryptedChar(character, places) ==
    IF InLowercase(character)
    THEN Getitem(ascii_lowercase, ShiftedIndex(IndexOf(character), places))
    ELSE <<character>>

\* the for loop of cipher_caesar from the character at position i on, with
\* encrypted_text as built so far
RECURSIVE CipherLoop(_, _, _, _)
CipherLoop(plain, places, i, encrypted_text) ==
    IF i > Len(plain) THEN encrypted_text
    ELSE LET encrypted_char == EncryptedChar(plain[i], places)
         IN  IF encrypted_char = IndexError THEN IndexError
             ELSE CipherLoop(plain, places, i + 1, encrypted_text \o encrypted_char)

cipher_caesar(plain, places) == CipherLoop(plain, places, 1, <<>>)

\* the list comprehension list_str_encrypt, then ''.join
cipher_caesar_v2(plain, places) ==
    LET list_str_encrypt == [i \in 1 .. Len(plain) |-> EncryptedChar(plain[i], places)]
    IN  IF \E i \in 1 .. Len(plain) : list_str_encrypt[i] = IndexError
        THEN IndexError
        ELSE [i \in 1 .. Len(plain) |-> list_str_encrypt[i][1]]

\* sequence[i:] and sequence[:i] of Python: a negative i counts from the end,
\* and an i beyond either end is cut to that end
SliceBound(sequence, i) ==
    IF i < 0
    THEN (IF Len(sequence) + i < 0 THEN 0 ELSE Len(sequence) + i)
    ELSE (IF i > Len(sequence) THEN Len(sequence) ELSE i)
SliceFrom(sequence, i) ==
    SubSeq(sequence, SliceBound(sequence, i) + 1, Len(sequence))
SliceTo(sequence, i) ==
    SubSeq(sequence, 1, SliceBound(sequence, i))

\* ShiftedLowercase cut one place further
ShiftedLowercaseOneMore(places) ==
    SliceFrom(ascii_lowercase, places + 1) \o SliceTo(ascii_lowercase, places + 1)

\* string.ascii_lowercase[n:] + string.ascii_lowercase[:n]
ShiftedLowercase(places) ==
    SliceFrom(ascii_lowercase, places) \o SliceTo(ascii_lowercase, places)

\* text.maketrans(x, y), then text.translate(conversion_table)
cipher_caesar_v3(plain, places) ==
    LET y == ShiftedLowercase(places)
    IN  IF Len(y) # Len(ascii_lowercase) THEN ValueError
        ELSE [i \in 1 .. Len(plain) |->
                 IF InLowercase(plain[i]) THEN y[IndexOf(plain[i]) + 1] ELSE plain[i]]

\* the three versions are called on the same text and shift
Encrypt ==
    /\ stage = "input"
    /\ encrypted' = <<cipher_caesar(text, shift),
                      cipher_caesar_v2(text, shift),
                      cipher_caesar_v3(text, shift)>>
    /\ stage' = "encrypted"
    /\ UNCHANGED <<text, shift, decrypted>>
    /\ UNCHANGED <<sudoku_vars, uptime_vars, sum_vars>>

\* each version that returned a string is called on it with the
\* complementary shift
Decrypt ==
    /\ stage = "encrypted"
    /\ LET back == TOTAL_ASCII_LOWERCASE - shift
           Pass(e) == e \in {IndexError, ValueError}
       IN  decrypted' =
             <<IF Pass(encrypted[1]) THEN encrypted[1] ELSE cipher_caesar(encrypted[1], back),
               IF Pass(encrypted[2]) THEN encrypted[2] ELSE cipher_caesar_v2(encrypted[2], back),
               IF Pass(encrypted[3]) THEN encrypted[3] ELSE cipher_caesar_v3(encrypted[3], back)>>
    /\ stage' = "decrypted"
    /\ UNCHANGED <<text, shift, encrypted>>
    /\ UNCHANGED <<sudoku_vars, uptime_vars, sum_vars>>

InitCaesar ==
    /\ text \in Texts
    /\ shift \in Shifts
    /\ stage = "input"
    /\ encrypted = <<>>
    /\ decrypted = <<>>
    /\ SudokuIdle /\ UptimeIdle /\ SumIdle

NextCaesar ==
    \/ Encrypt
    \/ Decrypt

SpecCaesar == InitCaesar /\ [][NextCaesar]_vars

----------------------------------------------------------------------------
(* src/3_logparse.py: compute_uptime *)

\* the longest filtered log
MaxEntries == 3
\* the latest timestamp, in ticks of the clock after the earliest one
MaxTime == 3

\* the last word of a 'Device State' line: the three states the program
\* cares about, and one of the many other values
Statuses == {"ON", "OFF", "ERR", "STANDBY"}

\* the filtered logs: entries (timestamp, status) in the order of the file,
\* the timestamps never decreasing
Logs ==
    {log \in UNION {[1 .. len -> (0 .. MaxTime) \X Statuses] : len \in 0 .. MaxEntries} :
        \A i \in 1 .. Len(log) - 1 : log[i][1] <= log[i + 1][1]}

\* filtered_log[0][0]
first_timestamp == filtered_log[1][1]

\* filtered_log[0] on an empty list
RaiseOnEmptyLog ==
    /\ uptime_pc = "call"
    /\ filtered_log = <<>>
    /\ uptime_pc' = "IndexError"
    /\ UNCHANGED <<filtered_log, position, uptime_seconds, on_timestamp>>
    /\ UNCHANGED <<sudoku_vars, caesar_vars, sum_vars>>

\* uptime_seconds = 0.0; on_timestamp = first_timestamp
EnterLoop ==
    /\ uptime_pc = "call"
    /\ filtered_log # <<>>
    /\ uptime_seconds' = 0
    /\ on_timestamp' = first_timestamp
    /\ uptime_pc' = "loop"
    /\ UNCHANGED <<filtered_log, position>>
    /\ UNCHANGED <<sudoku_vars, caesar_vars, sum_vars>>

\* the entry the for loop handles next
Entry == filtered_log[position + 1]

\* if status == 'ON': the timestamp is kept unless it equals the first one
StatusOn ==
    /\ uptime_pc = "loop"
    /\ position < Len(filtered_log)
    /\ Entry[2] = "ON"
    /\ on_timestamp' = IF Entry[1] # first_timestamp THEN Entry[1] ELSE on_timestamp
    /\ position' = position + 1
    /\ UNCHANGED <<filtered_log, uptime_seconds, uptime_pc>>
    /\ UNCHANGED <<sudoku_vars, caesar_vars, sum_vars>>

\* elif status == 'OFF': the time since on_timestamp is added
StatusOff ==
    /\ uptime_pc = "loop"
    /\ position < Len(filtered_log)
    /\ Entry[2] = "OFF"
    /\ uptime_seconds' = uptime_seconds + (Entry[1] - on_timestamp)
    /\ position' = position + 1
    /\ UNCHANGED <<filtered_log, on_timestamp, uptime_pc>>
    /\ UNCHANGED <<sudoku_vars, caesar_vars, sum_vars>>

\* any other status: nothing is done
StatusOther ==
    /\ uptime_pc = "loop"
    /\ position < Len(filtered_log)
    /\ Entry[2] \notin {"ON", "OFF"}
    /\ position' = position + 1
    /\ UNCHANGED <<filtered_log, uptime_seconds, on_timestamp, uptime_pc>>
    /\ UNCHANGED <<sudoku_vars, caesar_vars, sum_vars>>

\* return uptime_seconds
ReturnUptime ==
    /\ uptime_pc = "loop"
    /\ position = Len(filtered_log)
    /\ uptime_pc' = "returned"
    /\ UNCHANGED <<filtered_log, position, uptime_seconds, on_timestamp>>
    /\ UNCHANGED <<sudoku_vars, caesar_vars, sum_vars>>

InitUptime ==
    /\ filtered_log \in Logs
    /\ position = 0
    /\ uptime_seconds = 0
    /\ on_timestamp = 0
    /\ uptime_pc = "call"
    /\ SudokuIdle /\ CaesarIdle /\ SumIdle

NextUptime ==
    \/ RaiseOnEmptyLog
    \/ EnterLoop
    \/ StatusOn
    \/ StatusOff
    \/ StatusOther
    \/ ReturnUptime

SpecUptime == InitUptime /\ [][NextUptime]_vars

----------------------------------------------------------------------------
(* src/1_integer_sum.py: add_it_up *)

\* the largest integer handed to add_it_up, and the smallest with a minus
MaxInteger == 100

\* the arguments, as the name of the Python type and a number: the integers,
\* the two bool, which are instances of int with the values 0 and 1, some
\* floats in tenths (5.6 is <<"float", 56>>), a str and None
Arguments ==
    {<<"int", v>> : v \in (0 - MaxInteger) .. MaxInteger}
    \cup {<<"bool", 0>>, <<"bool", 1>>}
    \cup {<<"float", v>> : v \in {0 - 50, 0, 50, 56}}
    \cup {<<"str", 5>>, <<"NoneType", 0>>}

\* isinstance(integer, int)
IsInstanceInt(argument) == argument[1] \in {"int", "bool"}

\* isinstance(integer, int) and integer >= 0
Accepted(argument) == IsInstanceInt(argument) /\ argument[2] >= 0

\* RangeStop without the + 1
RangeStopExcluded(argument) == argument[2]

\* the stop of range(integer + 1)
RangeStop(argument) == argument[2] + 1

\* sum(range(integer + 1)) starts: the total is 0, the first term is 0
EnterSum ==
    /\ sum_pc = "call"
    /\ Accepted(integer)
    /\ term' = 0
    /\ total' = 0
    /\ sum_pc' = "sum"
    /\ UNCHANGED integer
    /\ UNCHANGED <<sudoku_vars, caesar_vars, uptime_vars>>

\* sum() adds the next element of the range
AddTerm ==
    /\ sum_pc = "sum"
    /\ term < RangeStop(integer)
    /\ total' = total + term
    /\ term' = term + 1
    /\ UNCHANGED <<integer, sum_pc>>
    /\ UNCHANGED <<sudoku_vars, caesar_vars, uptime_vars>>

\* the range is exhausted: return the sum
ReturnSum ==
    /\ sum_pc = "sum"
    /\ term >= RangeStop(integer)
    /\ sum_pc' = "returned"
    /\ UNCHANGED <<integer, term, total>>
    /\ UNCHANGED <<sudoku_vars, caesar_vars, uptime_vars>>

\* else: return 0
ReturnZero ==
    /\ sum_pc = "call"
    /\ ~Accepted(integer)
    /\ total' = 0
    /\ sum_pc' = "returned"
    /\ UNCHANGED <<integer, term>>
    /\ UNCHANGED <<sudoku_vars, caesar_vars, uptime_vars>>

InitSum ==
    /\ integer \in Arguments
    /\ term = 0
    /\ total = 0
    /\ sum_pc = "call"
    /\ SudokuIdle /\ CaesarIdle /\ UptimeIdle

NextSum ==
    \/ EnterSum
    \/ AddTerm
    \/ ReturnSum
    \/ ReturnZero

SpecSum == InitSum /\ [][NextSum]_vars
----------------------------------------------------------------------------
(* Vocabulary of the properties: units, validity, candidates, completions *)

RowUnit(r) == {<<r, c>> : c \in Idx}
ColUnit(c) == {<<r, c>> : r \in Idx}
BoxUnit(b) == {<<(b \div 3) * 3 + i, (b % 3) * 3 + j>> : <<i, j>> \in (0 .. 2) \X (0 .. 2)}
AllUnits == {RowUnit(r) : r \in Idx} \cup {ColUnit(c) : c \in Idx}
                \cup {BoxUnit(b) : b \in Idx}

\* no unit of g holds the same nonzero digit in two cells: each unit has as
\* many nonzero cells as it has different nonzero digits
NoRepeat(g) ==
    \A u \in AllUnits :
        Cardinality({x \in u : g[x] # 0}) = Cardinality({g[x] : x \in u} \ {0})

\* every unit of g holds each digit 1..9 (hence exactly once)
Complete(g) == \A u \in AllUnits : {g[x] : x \in u} = Digits

\* h keeps every given digit of g
Agrees(h, g) == \A x \in Cells : g[x] # 0 => h[x] = g[x]

UnknownCells(g) == {x \in Cells : g[x] = 0}

\* the cells of the row, the column and the box of x
Peers(x) ==
    RowUnit(x[1]) \cup ColUnit(x[2]) \cup BoxUnit((x[1] \div 3) * 3 + (x[2] \div 3))

\* the digits that occur nowhere in the row, column and box of x
Candidates(g, x) == Digits \ {g[y] : y \in Peers(x)}

\* reference solver: the number of valid completions of a grid without
\* repeats, counted by backtracking up to cap
RECURSIVE CountCompletions(_, _)
RECURSIVE CountOver(_, _, _, _)
CountCompletions(g, cap) ==
    IF cap = 0 THEN 0
    ELSE IF UnknownCells(g) = {} THEN 1
    ELSE LET k == CHOOSE i \in 0 .. 80 :
                     /\ g[RowMajor(i)] = 0
                     /\ \A j \in 0 .. i - 1 : g[RowMajor(j)] # 0
         IN  CountOver(g, RowMajor(k), Candidates(g, RowMajor(k)), cap)
CountOver(g, x, ds, cap) ==
    IF ds = {} \/ cap = 0 THEN 0
    ELSE LET d == CHOOSE e \in ds : TRUE
             n == CountCompletions([g EXCEPT ![x] = d], cap)
         IN  n + CountOver(g, x, ds \ {d}, cap - n)

\* a complete grid with the digits 1 and 2 exchanged
Exchange12(h) ==
    [x \in Cells |-> IF h[x] = 1 THEN 2 ELSE IF h[x] = 2 THEN 1 ELSE h[x]]

\* g has two or more valid completions.  The grid with all cells unknown is
\* completed by the solution grid and by that grid with 1 and 2 exchanged;
\* any other grid is handed to the reference solver
SeveralCompletions(g) ==
    IF UnknownCells(g) = Cells
    THEN /\ Complete(sdm_to_array(SolutionSdm))
         /\ Complete(Exchange12(sdm_to_array(SolutionSdm)))
         /\ Exchange12(sdm_to_array(SolutionSdm)) # sdm_to_array(SolutionSdm)
    ELSE CountCompletions(g, 2) = 2

\* the unknown cells with exactly one candidate
NakedCells(g) == {x \in UnknownCells(g) : Cardinality(Candidates(g, x)) = 1}

\* the digits that are a candidate of exactly one unknown cell of the unit u
HiddenDigits(g, u) ==
    LET cand == [x \in u |-> IF g[x] = 0 THEN Candidates(g, x) ELSE {}]
    IN  {d \in Digits : Cardinality({x \in u : d \in cand[x]}) = 1}

\* the one unknown cell of u that has d as a candidate
HiddenCell(g, u, d) ==
    CHOOSE x \in u : g[x] = 0 /\ d \in Candidates(g, x)

\* the 27 units in the order of the scan: rows, then columns, then boxes
UnitAt(i) ==
    IF i < 9 THEN RowUnit(i) ELSE IF i < 18 THEN ColUnit(i - 9) ELSE BoxUnit(i - 18)

\* the units, by their place in the scan, that have a hidden single
HiddenUnits(g) == {i \in 0 .. 26 : HiddenDigits(g, UnitAt(i)) # {}}

\* the first of a nonempty set of places
First(H) == CHOOSE i \in H : \A j \in H : i <= j

\* no rule applies: some cell is unknown, no naked single, no hidden single
Stuck(g) ==
    /\ UnknownCells(g) # {}
    /\ NakedCells(g) = {}
    /\ HiddenUnits(g) = {}

Ended == pc # "call"

\* the unknown cells without any candidate
DeadCells(g) == {x \in UnknownCells(g) : Candidates(g, x) = {}}

\* the nonzero digits of the row, the column and the box of x
PeerDigits(g, x) == {g[y] : y \in Peers(x)} \ {0}

\* g has exactly one unknown cell, and eight different digits around it
OneCellLeft(g) ==
    /\ Cardinality(UnknownCells(g)) = 1
    /\ \A x \in UnknownCells(g) : Cardinality(PeerDigits(g, x)) = 8

----------------------------------------------------------------------------
(* The claims *)

\* C1: for a starting grid without repeats, a returned grid has every unit
\* holding 1..9 exactly once, keeps the given digits and is the only valid
\* completion of the starting grid; a starting grid with two or more valid
\* completions always yields None.
C1_ReturnedGridIsTheOnlyCompletion ==
    (Ended /\ NoRepeat(start)) =>
        /\ pc = "grid" =>
              /\ Complete(puzzle)
              /\ Agrees(puzzle, start)
              /\ ~SeveralCompletions(start)
        /\ SeveralCompletions(start) => pc = "None"

\* C2: from a starting grid without repeats, every grid reached by the
\* placement rounds has no unit with the same nonzero digit in two cells.
C2_NoRepeatIsKept == NoRepeat(start) => NoRepeat(puzzle)

C2_Witness ==
    /\ NoRepeat(start)
    /\ rounds >= 2
    /\ last \in {"row", "col", "region"}

\* C3: a grid is returned only without 0 cells; a run that stops while some
\* cell is unknown returns None.
C3_NoGridWithZeros ==
    /\ pc = "grid" => UnknownCells(puzzle) = {}
    /\ (Ended /\ UnknownCells(puzzle) # {}) => pc = "None"

\* C4: a starting grid with a repeated digit in some unit is rejected before
\* solving: no round runs, no cell is modified, and the outcome is neither a
\* grid nor None.
C4_RepeatIsRejected ==
    ~NoRepeat(start) =>
        /\ rounds = 0
        /\ puzzle = start
        /\ pc \notin {"grid", "None"}

\* C5: every run ends with a grid or None, after at most as many placement
\* rounds as the starting grid has unknown cells (at most 81).
C5_EndsWithinUnknownCount ==
    /\ Ended => pc \in {"grid", "None"}
    /\ rounds <= Cardinality(UnknownCells(start))
    /\ rounds <= 81

\* C6: a round that places a digit changes exactly one cell, from 0 to a digit
\* 1..9, and leaves the other 80 cells as they were, so the number of nonzero
\* cells rises by exactly one.
C6_OneCellPerRound ==
    [][((run' = run /\ puzzle' # puzzle) \/ rounds' = rounds + 1) =>
          /\ \E x \in Cells :
                /\ puzzle[x] = 0
                /\ puzzle'[x] \in Digits
                /\ \A y \in Cells \ {x} : puzzle'[y] = puzzle[y]
          /\ Cardinality(UnknownCells(puzzle')) + 1 = Cardinality(UnknownCells(puzzle))
          /\ rounds' = rounds + 1]_vars

C6_Witness ==
    /\ rounds >= 3
    /\ last = "row"
    /\ Cardinality(UnknownCells(puzzle)) + rounds = Cardinality(UnknownCells(start))

\* C7: a call on a grid with an unknown cell, no naked single and no hidden
\* single in any unit returns None without modifying a cell, and None is
\* returned only from such a grid.
C7_StuckReturnsNone ==
    [][/\ (pc = "call" /\ Stuck(puzzle)) => (pc' = "None" /\ puzzle' = puzzle)
       /\ (pc = "call" /\ pc' = "None") => (Stuck(puzzle) /\ puzzle' = puzzle)]_vars

C9_FirstNakedSingle ==
    [][(pc = "call" /\ NakedCells(puzzle) # {}) =>
          LET N == NakedCells(puzzle)
              x == CHOOSE y \in N : \A z \in N : 9 * y[1] + y[2] <= 9 * z[1] + z[2]
              d == CHOOSE e \in Candidates(puzzle, x) : TRUE
          IN  /\ puzzle' = [puzzle EXCEPT ![x] = d]
              /\ last' = "cell"
              /\ pc' = "call"]_vars

C9_Witness ==
    /\ last = "cell"
    /\ pc = "call"
    /\ Cardinality(NakedCells(puzzle)) >= 2

C11_FullGridReturnedAtOnce ==
    UnknownCells(start) = {} =>
        /\ rounds = 0
        /\ puzzle = start
        /\ pc \in {"call", "grid"}
        /\ run = 2 => first = <<"grid", start>>

C11_Witness ==
    /\ UnknownCells(start) = {}
    /\ pc = "grid"
    /\ run = 2

\* C12: on the puzzle of the module docstring solve_puzzle returns a grid, not
\* None: the grid has no 0, every row, column and box holds 1..9 exactly once,
\* and every given digit of the input is kept.
C12_ExampleIsSolved ==
    (start = sdm_to_array(ExampleSdm) /\ Ended) =>
        /\ pc = "grid"
        /\ UnknownCells(puzzle) = {}
        /\ Complete(puzzle)
        /\ Agrees(puzzle, start)

C12_Witness ==
    /\ start = sdm_to_array(ExampleSdm)
    /\ pc = "grid"
    /\ rounds = Cardinality(UnknownCells(start))

\* C13: for every unknown cell of the grid of a round, the list of candidates
\* holds exactly the digits 1..9 that occur nowhere in the row, nowhere in the
\* column and nowhere in the box of the cell, in increasing order without
\* repeats.
C13_CandidateList ==
    pc \in {"call", "None", "TypeError"} =>
        \A x \in UnknownCells(puzzle) :
            LET list == valid_digits(puzzle)[x]
            IN  /\ {list[i] : i \in 1 .. Len(list)} = Candidates(puzzle, x)
                /\ \A i \in 1 .. Len(list) - 1 : list[i] < list[i + 1]

C13_Witness ==
    /\ pc = "call"
    /\ rounds >= 1
    /\ \E x \in UnknownCells(puzzle) : Cardinality(Candidates(puzzle, x)) >= 3
    /\ DeadCells(puzzle) # {}

\* C19: once some unknown cell has no candidate, that cell is never assigned
\* in a later round, solve_puzzle never returns a grid, and the run ends with
\* None.
C19_DeadCellEndsWithNone ==
    /\ [][\A x \in DeadCells(puzzle) : puzzle'[x] = 0]_vars
    /\ [](DeadCells(puzzle) # {} => pc \in {"call", "None"})
    /\ ((DeadCells(puzzle) # {}) ~> (pc = "None"))

C19_Witness ==
    /\ DeadCells(start) = {}
    /\ DeadCells(puzzle) # {}
    /\ rounds >= 2
    /\ pc = "None"

\* C20: a grid with exactly one unknown cell, with eight different digits in
\* its row, column and box together, is solved in exactly one round: the
\* naked single rule writes the missing digit in that cell and the next call
\* returns the full grid.
C20_OneCellOneRound ==
    OneCellLeft(start) =>
        LET x == CHOOSE y \in Cells : start[y] = 0
            d == CHOOSE e \in Digits : e \notin PeerDigits(start, x)
        IN  /\ rounds <= 1
            /\ rounds = 0 => (pc = "call" /\ puzzle = start)
            /\ rounds = 1 =>
                  /\ last = "cell"
                  /\ puzzle = [start EXCEPT ![x] = d]
                  /\ pc \in {"call", "grid"}

C20_Witness ==
    /\ OneCellLeft(start)
    /\ rounds = 1
    /\ pc = "grid"

\* the letter n places down the alphabet from the character, around the end
Rotated(character, places) ==
    ascii_lowercase[((IndexOf(character) + places) % TOTAL_ASCII_LOWERCASE) + 1]

\* C14: for every text and every shift in 0..25, cipher_caesar returns a
\* string of the same length in which each lowercase letter at index p is
\* replaced by the letter at index (p + n) mod 26 and every other character
\* is unchanged at its position; with shift 0 the text is returned unchanged.
C14_CaesarShiftsLetters ==
    (stage # "input" /\ shift \in 0 .. 25) =>
        /\ Len(encrypted[1]) = Len(text)
        /\ \A i \in 1 .. Len(text) :
              encrypted[1][i] = IF InLowercase(text[i])
                                THEN Rotated(text[i], shift)
                                ELSE text[i]
        /\ shift = 0 => encrypted[1] = text

C14_Witness ==
    /\ stage = "encrypted"
    /\ text = <<"z", "!">>
    /\ shift = 3
    /\ encrypted[1] = <<"c", "!">>

\* C15: for every text and every integer shift, cipher_caesar,
\* cipher_caesar_v2 and cipher_caesar_v3 give the same outcome.
C15_ThreeVersionsAgree ==
    stage # "input" =>
        /\ encrypted[1] = encrypted[2]
        /\ encrypted[2] = encrypted[3]

\* C16: for every text and every shift in 0..26, each of the three versions
\* applied with the shift and then with 26 minus the shift to its result
\* returns the original text.
C16_ComplementaryShiftUndoes ==
    (stage = "decrypted" /\ shift \in 0 .. 26) =>
        \A version \in 1 .. 3 : decrypted[version] = text

C16_Witness ==
    /\ stage = "decrypted"
    /\ shift = 13
    /\ text = <<"a", "z">>
    /\ encrypted = <<<<"n", "m">>, <<"n", "m">>, <<"n", "m">>>>
    /\ decrypted[3] = text

\* the time the device was ON in the entries from i on: it is ON from an ON
\* entry to the next OFF entry; on tells whether it is ON before entry i, and
\* since when
RECURSIVE TimeOn(_, _, _, _)
TimeOn(log, i, on, since) ==
    IF i > Len(log) THEN 0
    ELSE IF log[i][2] = "ON"
         THEN TimeOn(log, i + 1, TRUE, IF on THEN since ELSE log[i][1])
    ELSE IF log[i][2] = "OFF"
         THEN (IF on THEN log[i][1] - since ELSE 0) + TimeOn(log, i + 1, FALSE, since)
    ELSE TimeOn(log, i + 1, on, since)

\* C17: for every list of entries in non-decreasing time order whose first
\* entry is ON, compute_uptime returns the total time the device was ON: a
\* further ON while ON does not restart the interval, an OFF while OFF adds
\* nothing, and ERR or other states change nothing.
C17_UptimeIsTimeOn ==
    (uptime_pc = "returned" /\ filtered_log[1][2] = "ON") =>
        uptime_seconds = TimeOn(filtered_log, 1, FALSE, 0)

\* C18: for every integer n >= 0, add_it_up(n) returns n(n+1)/2; for every
\* negative integer and every argument that is not an integer it returns 0.
C18_SumUpTo ==
    sum_pc = "returned" =>
        total = IF integer[1] \in {"int", "bool"} /\ integer[2] >= 0
                THEN (integer[2] * (integer[2] + 1)) \div 2
                ELSE 0

C18_Witness ==
    /\ sum_pc = "returned"
    /\ integer = <<"int", 100>>
    /\ total = 5050

====
